---- MODULE Spec2Model ----
(***************************************************************************)
(* Symbolic expressions (src/expressions/expressions.py): the expression   *)
(* classes with their operator sugar and string rendering, the iterative   *)
(* post-order visitor `postvisitor`, and the single-dispatch visitor       *)
(* function `differentiate`.                                               *)
(*                                                                         *)
(* Expression objects that are the INPUT of a traversal live in `heap`, a  *)
(* sequence of objects addressed by index: the index is the object's       *)
(* identity (Expression defines neither __eq__ nor __hash__, so the        *)
(* `visited` dict of postvisitor is keyed by identity).  Expressions that  *)
(* are only built and read structurally (results of differentiate, the     *)
(* operand of str) are tuples whose first component is the class name.     *)
(***************************************************************************)
EXTENDS Integers, Sequences, FiniteSets, TLC

\* ------------------------------------------------------------------ bounds

\* Largest number of Expression objects in a DAG visited with the recording
\* visitor, and in one visited with differentiate.
MaxNodes == 5
MaxDiffNodes == 3
\* Largest number of operator nodes in a rendered expression tree.
MaxOps == 2

\* Ceiling of the two history counters (reached only if the loop misbehaves).
CountCap == 2 * MaxNodes + 1

\* ------------------------------------------------- numbers and expressions

\* Python values are tagged: a number carries its value and whether it is a
\* float (3 vs 3.0), a string carries its sequence of characters.
Num(n, isFloat) == <<"num", n, isFloat>>
PyStr(chars) == <<"str", chars>>

\* The == of two Python values: numbers compare by value (1 == 1.0).
PyEq(u, v) == IF u[1] = "num" /\ v[1] = "num" THEN u[2] = v[2] ELSE u = v

\* isinstance(value, numbers.Number)
IsNum(v) == v[1] = "num"

TypeError == <<"raise", "TypeError">>

\* Number.__init__
Number(value) == IF ~IsNum(value) THEN TypeError ELSE <<"Number", value>>

\* Symbol.__init__
Symbol(symbol) == <<"Symbol", symbol>>

OperatorKinds == {"Add", "Sub", "Mul", "Div", "Pow"}
\* The classes whose instances use Terminal.__str__ and Terminal.precedence.
TerminalKinds == {"Terminal", "Number", "Symbol"}

\* The operator classes' constructor, Expression.__init__(*operands).
Add(a, b) == <<"Add", a, b>>
Sub(a, b) == <<"Sub", a, b>>
Mul(a, b) == <<"Mul", a, b>>
Div(a, b) == <<"Div", a, b>>
Pow(a, b) == <<"Pow", a, b>>

\* The `if isinstance(other, Num): other = Number(other)` of __add__,
\* __sub__, __mul__, __truediv__ and __pow__.
Promote(other) == IF IsNum(other) THEN Number(other) ELSE other

ExprAdd(self, other) == Add(self, Promote(other))
ExprSub(self, other) == Sub(self, Promote(other))
ExprMul(self, other) == Mul(self, Promote(other))
ExprDiv(self, other) == Div(self, Promote(other))
ExprPow(self, other) == Pow(self, Promote(other))

\* ---------------------------------------------------------------- rendering

AttributeError == <<"raise", "AttributeError">>

\* An exception in place of a value (a class attribute, the result of fn).
IsRaise(r) == r[1] = "raise"

\* The outcome of a call of str: the string returned (a sequence of
\* characters) or the exception raised.  The two are kept in separate
\* fields, so that no string is taken for an exception.
Returned(chars) == [exc |-> "None", text |-> chars]
Raised(exception) == [exc |-> exception[2], text |-> <<>>]

\* The classes that define or inherit `precedence`, and `exp_symbol`.
HasPrecedence(kind) == kind \in OperatorKinds \cup TerminalKinds
HasExpSymbol(kind) == kind \in OperatorKinds

\* The class attribute `precedence`: set by Terminal (inherited by Number
\* and Symbol) and by the five operator classes.  Operator and Expression
\* set none, so reading it there raises AttributeError.
precedence(kind) ==
  CASE kind = "Add" -> 3 [] kind = "Sub" -> 3
    [] kind = "Mul" -> 2 [] kind = "Div" -> 2
    [] kind = "Pow" -> 1
    [] kind \in TerminalKinds -> 0
    [] ~HasPrecedence(kind) -> AttributeError

\* The class attribute `exp_symbol`, set by the five operator classes only.
exp_symbol(kind) ==
  CASE kind = "Add" -> "+" [] kind = "Sub" -> "-"
    [] kind = "Mul" -> "*" [] kind = "Div" -> "/"
    [] kind = "Pow" -> "^"
    [] ~HasExpSymbol(kind) -> AttributeError

DigitChar(d) ==
  CASE d = 0 -> "0" [] d = 1 -> "1" [] d = 2 -> "2" [] d = 3 -> "3"
    [] d = 4 -> "4" [] d = 5 -> "5" [] d = 6 -> "6" [] d = 7 -> "7"
    [] d = 8 -> "8" [] d = 9 -> "9"

RECURSIVE Digits(_)
Digits(n) == IF n < 10 THEN <<DigitChar(n)>>
             ELSE Digits(n \div 10) \o <<DigitChar(n % 10)>>

\* str(value) of a terminal's payload, as a sequence of characters: a
\* non-negative int prints its digits, a float of integral value appends
\* ".0", a string prints its characters.
StrValue(value) ==
  IF IsNum(value)
  THEN Digits(value[2]) \o (IF value[3] THEN <<".", "0">> ELSE <<>>)
  ELSE value[2]

\* The two comparisons `a.precedence > self.precedence` of Operator.__str__.
\* (NeedsParensGE: the comparison taken as >=.)
NeedsParensGE(operand, self) == precedence(operand[1]) >= precedence(self[1])
NeedsParens(operand, self) == precedence(operand[1]) > precedence(self[1])

\* "(" + str(a) + ")": s is the outcome of str(a), whose exception
\* propagates.
Parenthesized(s) ==
  IF s.exc # "None" THEN s ELSE Returned(<<"(">> \o s.text \o <<")">>)

\* Terminal.__str__ and Operator.__str__.  The statements run in source
\* order and the first exception leaves the function: reading the
\* precedence of a or of self (line 76), str(a), reading the precedence of
\* b (line 80), str(b), reading self.exp_symbol (line 84).
RECURSIVE Str(_)
Str(self) ==
  IF self[1] \in TerminalKinds
  THEN Returned(StrValue(self[2]))
  ELSE LET a == self[2]
           b == self[3]
           a_str == IF NeedsParens(a, self) THEN Parenthesized(Str(a))
                    ELSE Str(a)
           b_str == IF NeedsParens(b, self) THEN Parenthesized(Str(b))
                    ELSE Str(b)
       IN IF ~HasPrecedence(a[1]) THEN Raised(precedence(a[1]))
          ELSE IF ~HasPrecedence(self[1]) THEN Raised(precedence(self[1]))
          ELSE IF a_str.exc # "None" THEN a_str
          ELSE IF ~HasPrecedence(b[1]) THEN Raised(precedence(b[1]))
          ELSE IF b_str.exc # "None" THEN b_str
          ELSE IF ~HasExpSymbol(self[1]) THEN Raised(exp_symbol(self[1]))
          ELSE Returned(a_str.text \o <<" ", exp_symbol(self[1]), " ">>
                        \o b_str.text)

\* ---------------------------------------------------------- differentiate

NotImplementedError == <<"raise", "NotImplementedError">>

\* The singledispatch default: no rule is registered for type(expr).
\* (DiffDefaultZero: a default that returns Number(0.0) instead of raising.)
DiffDefaultZero(expr, o, var) == Number(Num(0, TRUE))
DiffDefault(expr, o, var) == NotImplementedError

\* @differentiate.register(Number)
DiffNumber(expr, o, var) == Number(Num(0, TRUE))

\* @differentiate.register(Symbol)
DiffSymbol(expr, o, var) ==
  IF PyEq(expr[2], var) THEN Number(Num(1, TRUE)) ELSE Number(Num(0, TRUE))

\* @differentiate.register(Add)
DiffAdd(expr, o, var) == ExprAdd(o[1], o[2])

\* @differentiate.register(Sub)
DiffSub(expr, o, var) == ExprSub(o[1], o[2])

\* @differentiate.register(Mul)
\* (DiffMulSwapped: the original operands exchanged.)
DiffMulSwapped(expr, o, var) ==
  ExprAdd(ExprMul(o[1], expr[2]), ExprMul(o[2], expr[3]))
DiffMul(expr, o, var) ==
  ExprAdd(ExprMul(o[1], expr[3]), ExprMul(o[2], expr[2]))

\* @differentiate.register(Div)
DiffDiv(expr, o, var) ==
  ExprDiv(ExprSub(ExprMul(o[1], expr[3]), ExprMul(expr[2], o[2])),
          ExprPow(expr[3], Number(Num(2, FALSE))))

\* @differentiate.register(Pow)
\* (DiffPowNoChain: the factor o[0] left out.)
DiffPowNoChain(expr, o, var) ==
  ExprMul(expr[3], ExprPow(expr[2], ExprSub(expr[3], Num(1, FALSE))))
DiffPow(expr, o, var) ==
  ExprMul(ExprMul(expr[3], ExprPow(expr[2], ExprSub(expr[3], Num(1, FALSE)))),
          o[1])

\* differentiate(expr, *o, var=var): dispatch on type(expr).
differentiate(expr, o, var) ==
  CASE expr[1] = "Number" -> DiffNumber(expr, o, var)
    [] expr[1] = "Symbol" -> DiffSymbol(expr, o, var)
    [] expr[1] = "Add" -> DiffAdd(expr, o, var)
    [] expr[1] = "Sub" -> DiffSub(expr, o, var)
    [] expr[1] = "Mul" -> DiffMul(expr, o, var)
    [] expr[1] = "Div" -> DiffDiv(expr, o, var)
    [] expr[1] = "Pow" -> DiffPow(expr, o, var)
    [] OTHER -> DiffDefault(expr, o, var)

\* ------------------------------------------------------------------- state

VARIABLES
  heap,      \* the Expression objects of the traversed DAG, by identity
  expr,      \* postvisitor's argument: the identity of the root
  fn,        \* postvisitor's argument: which visitor function is applied
  kwargs,    \* postvisitor's **kwargs (for differentiate: var)
  stack,     \* postvisitor's local `stack` (top is the last element)
  visited,   \* postvisitor's local dict `visited`
  pc,        \* "loop", "done", or the exception that left the function
  result,    \* the returned value
  calls,     \* history: how often fn was called on each object
  expands,   \* history: how often each object was pushed back with children
  self,      \* the expression given to str()
  text       \* the characters str(self) returned

vars == <<heap, expr, fn, kwargs, stack, visited, pc, result, calls, expands,
          self, text>>

\* The object `e` as a structural expression.
RECURSIVE ToTree(_, _)
ToTree(h, e) ==
  IF h[e].operands = <<>>
  THEN <<h[e].kind, h[e].value>>
  ELSE <<h[e].kind, ToTree(h, h[e].operands[1]), ToTree(h, h[e].operands[2])>>

\* A visitor function that records exactly what it was given: the node's
\* identity, the operand results in the order received, and the kwargs.
Record(e, o, kw) == <<"rec", e, o, kw>>

\* fn(e, *o, **kwargs)
Apply(e, o) ==
  IF fn = "differentiate" THEN differentiate(ToTree(heap, e), o, kwargs)
  ELSE Record(e, o, kwargs)

\* ------------------------------------------------------------- postvisitor

\* Lines 181-184: the operands of e that are not keys of visited, in operand
\* order (an operand that fills both slots is listed twice).
\* (UnvisitedAll: no test against visited; UnvisitedFirst: only the first
\* operand is tested.)
UnvisitedAll(e) == heap[e].operands
UnvisitedFirst(e) ==
  SelectSeq(heap[e].operands,
            LAMBDA c : c \notin DOMAIN visited /\ c = heap[e].operands[1])
Unvisited(e) ==
  SelectSeq(heap[e].operands, LAMBDA c : c \notin DOMAIN visited)

\* The generator *(visited[o] for o in e.operands).
\* (ArgsReversed: the results in right-to-left order.)
ArgsReversed(e) ==
  LET ops == heap[e].operands
  IN [i \in 1..Len(ops) |-> visited[ops[Len(ops) + 1 - i]]]
Args(e) ==
  LET ops == heap[e].operands
  IN [i \in 1..Len(ops) |-> visited[ops[i]]]

\* visited[e] = r
\* (MemoDrop: the assignment left out.)
MemoDrop(e, r) == visited
MemoPut(e, r) ==
  [n \in DOMAIN visited \cup {e} |-> IF n = e THEN r ELSE visited[n]]

Bump(c, e) == [c EXCEPT ![e] = IF @ < CountCap THEN @ + 1 ELSE @]

Top == stack[Len(stack)]
Popped == SubSeq(stack, 1, Len(stack) - 1)

\* One iteration of the while loop that takes the `if unvisited_children`
\* branch: e is pushed back, then its unvisited operands.
Expand ==
  /\ pc = "loop"
  /\ stack # <<>>
  /\ Unvisited(Top) # <<>>
  /\ stack' = Popped \o <<Top>> \o Unvisited(Top)
  /\ expands' = Bump(expands, Top)
  /\ UNCHANGED <<heap, expr, fn, kwargs, visited, pc, result, calls, self, text>>

\* One iteration that takes the else branch: fn is applied to e and the
\* results of its operands.  A missing key raises KeyError, and an exception
\* of fn leaves postvisitor.
Visit ==
  /\ pc = "loop"
  /\ stack # <<>>
  /\ Unvisited(Top) = <<>>
  /\ stack' = Popped
  /\ IF \E i \in 1..Len(heap[Top].operands) :
          heap[Top].operands[i] \notin DOMAIN visited
     THEN /\ pc' = "KeyError"
          /\ UNCHANGED <<visited, calls>>
     ELSE /\ calls' = Bump(calls, Top)
          /\ IF IsRaise(Apply(Top, Args(Top)))
             THEN /\ pc' = "NotImplementedError"
                  /\ UNCHANGED visited
             ELSE /\ visited' = MemoPut(Top, Apply(Top, Args(Top)))
                  /\ UNCHANGED pc
  /\ UNCHANGED <<heap, expr, fn, kwargs, result, expands, self, text>>

\* return visited[expr]
Return ==
  /\ pc = "loop"
  /\ stack = <<>>
  /\ IF expr \in DOMAIN visited
     THEN pc' = "done" /\ result' = visited[expr]
     ELSE pc' = "KeyError" /\ UNCHANGED result
  /\ UNCHANGED <<heap, expr, fn, kwargs, stack, visited, calls, expands, self, text>>

\* --------------------------------------------------------------------- str

\* str(self) is called once on the expression; an exception leaves no text.
Render ==
  /\ pc = "str"
  /\ IF Str(self).exc # "None"
     THEN pc' = Str(self).exc /\ UNCHANGED text
     ELSE pc' = "done" /\ text' = Str(self).text
  /\ UNCHANGED <<heap, expr, fn, kwargs, stack, visited, result, calls,
                 expands, self>>

\* ------------------------------------------------------------------ inputs

Names == {"x", "y"}

\* Expression objects whose operands are among the objects 1..n already built.
Objects(terminals, kinds, n) ==
  terminals \cup
  {[kind |-> k, value |-> <<>>, operands |-> <<a, b>>] :
     k \in kinds, a \in 1..n, b \in 1..n}

RECURSIVE Heaps(_, _, _)
Heaps(terminals, kinds, n) ==
  IF n = 0 THEN {<<>>}
  ELSE {Append(h, obj) : h \in Heaps(terminals, kinds, n - 1),
                         obj \in Objects(terminals, kinds, n - 1)}

\* Every object is part of the expression: it is the root (the last one
\* built) or an operand of a later object.
Rooted(h) ==
  \A i \in 1..(Len(h) - 1) :
    \E j \in (i + 1)..Len(h) :
      \E s \in 1..Len(h[j].operands) : h[j].operands[s] = i

Dags(terminals, kinds, max) ==
  UNION {{h \in Heaps(terminals, kinds, n) : Rooted(h)} : n \in 1..max}

\* The DAG shapes given to postvisitor with the recording visitor: the
\* visitor does not look at the class of a node, so one terminal class and
\* one operator class give every shape.
ShapeDags ==
  Dags({[kind |-> "Symbol", value |-> PyStr(<<"x">>), operands |-> <<>>]},
       {"Mul"}, MaxNodes)

\* The expressions given to postvisitor with differentiate: every class,
\* among them Terminal and Operator, for which no rule is registered.
DiffDags ==
  Dags({[kind |-> "Number", value |-> Num(3, FALSE), operands |-> <<>>],
        [kind |-> "Terminal", value |-> Num(3, FALSE), operands |-> <<>>]}
       \cup {[kind |-> "Symbol", value |-> PyStr(<<s>>), operands |-> <<>>] :
               s \in Names},
       OperatorKinds \cup {"Operator"}, MaxDiffNodes)

\* The expression trees given to str: at most MaxOps operator nodes over
\* three symbols.
Leaves == {Symbol(PyStr(<<s>>)) : s \in {"a", "b", "c"}}

RECURSIVE TreesWithOps(_)
TreesWithOps(k) ==
  IF k = 0 THEN Leaves
  ELSE UNION {LET left == TreesWithOps(i)
                  right == TreesWithOps(k - 1 - i)
              IN {<<op, l, r>> : op \in OperatorKinds, l \in left, r \in right} :
              i \in 0..(k - 1)}

RenderTrees == UNION {TreesWithOps(k) : k \in 0..MaxOps}

\* Trees with an instance of the base class Operator, at the root or as an
\* operand of the root.
BareOperatorTrees ==
  LET bare == {<<"Operator", l, r>> : l \in Leaves, r \in Leaves}
  IN bare
     \cup {<<op, l, r>> : op \in OperatorKinds, l \in bare, r \in Leaves}
     \cup {<<op, l, r>> : op \in OperatorKinds, l \in Leaves, r \in bare}

\* Trees over a symbol whose name has several characters.
LongNameTrees ==
  LET long == Symbol(PyStr(<<"r", "a", "i", "s", "e">>))
      short == Symbol(PyStr(<<"b">>))
      flat == {<<op, l, r>> : op \in OperatorKinds,
                              l \in {long, short}, r \in {long}}
  IN {long} \cup flat
     \cup {<<op, l, short>> : op \in OperatorKinds, l \in flat}

\* ---------------------------------------------------------- specifications

\* The state at the `while` of postvisitor(expr, fn, **kwargs).
Called(dags, fns) ==
  /\ heap \in dags
  /\ expr = Len(heap)
  /\ fn \in fns
  /\ kwargs \in {PyStr(<<s>>) : s \in Names}
  /\ stack = <<expr>>
  /\ visited = <<>>
  /\ pc = "loop"
  /\ result = <<>>
  /\ calls = [n \in 1..Len(heap) |-> 0]
  /\ expands = [n \in 1..Len(heap) |-> 0]
  /\ self = <<>>
  /\ text = <<>>

Init == Called(ShapeDags, {"record"})

Next == Expand \/ Visit \/ Return

Spec == Init /\ [][Next]_vars

\* The while loop keeps running: a Python call is never suspended.
FairSpec == Spec /\ WF_vars(Next)

DiffInit == Called(DiffDags, {"differentiate"})

SpecDiff == DiffInit /\ [][Next]_vars

FairSpecDiff == SpecDiff /\ WF_vars(Next)

StrInit ==
  /\ self \in RenderTrees \cup BareOperatorTrees \cup LongNameTrees
  /\ text = <<>>
  /\ pc = "str"
  /\ heap = <<>>
  /\ expr = 0
  /\ fn = "str"
  /\ kwargs = <<>>
  /\ stack = <<>>
  /\ visited = <<>>
  /\ result = <<>>
  /\ calls = <<>>
  /\ expands = <<>>

StrNext == Render

SpecStr == StrInit /\ [][StrNext]_vars

\* ------------------------------------------------- vocabulary of the claims

Nodes == 1..Len(heap)

\* The operand slots of the DAG that hold the object n.
Slots(n) ==
  {js \in Nodes \X {1, 2} :
     /\ js[2] <= Len(heap[js[1]].operands)
     /\ heap[js[1]].operands[js[2]] = n}

RECURSIVE SumTo(_, _)
SumTo(f, n) == IF n = 0 THEN 0 ELSE f[n] + SumTo(f, n - 1)

\* The number of calls of fn so far, and the number of operand slots.
TotalCalls == SumTo(calls, Len(heap))
Edges == SumTo([n \in Nodes |-> Len(heap[n].operands)], Len(heap))

Shared == \E n \in Nodes : Cardinality(Slots(n)) >= 2

\* An object that is an operand of two different parents.
TwoParents ==
  \E n \in Nodes : \E s, t \in Slots(n) : s[1] # t[1]

\* An object that fills both operand slots of one parent.
BothSlots ==
  \E n \in Nodes : Len(heap[n].operands) = 2
                   /\ heap[n].operands[1] = heap[n].operands[2]

\* The naive recursive bottom-up evaluation with the recording visitor.
RECURSIVE Naive(_)
Naive(n) ==
  Record(n, [i \in 1..Len(heap[n].operands) |-> Naive(heap[n].operands[i])],
         kwargs)

Registered == {"Number", "Symbol"} \cup OperatorKinds
HasUnregistered == \E n \in Nodes : heap[n].kind \notin Registered

\* Structural equality of two expressions, payloads compared with ==.
RECURSIVE TreeEq(_, _)
TreeEq(s, t) ==
  IF s[1] # t[1] \/ Len(s) # Len(t) THEN FALSE
  ELSE IF Len(s) = 2 THEN PyEq(s[2], t[2])
  ELSE TreeEq(s[2], t[2]) /\ TreeEq(s[3], t[3])

Zero == <<"Number", Num(0, FALSE)>>
One == <<"Number", Num(1, FALSE)>>
Two == <<"Number", Num(2, FALSE)>>
Three == <<"Number", Num(3, FALSE)>>
SymX == <<"Symbol", PyStr(<<"x">>)>>

\* The rule table of the derivative, applied recursively to a tree.
RECURSIVE Deriv(_, _)
Deriv(t, v) ==
  LET a == t[2]
      b == t[3]
  IN CASE t[1] = "Number" -> Zero
       [] t[1] = "Symbol" -> IF t[2] = v THEN One ELSE Zero
       [] t[1] = "Add" -> <<"Add", Deriv(a, v), Deriv(b, v)>>
       [] t[1] = "Sub" -> <<"Sub", Deriv(a, v), Deriv(b, v)>>
       [] t[1] = "Mul" ->
            <<"Add", <<"Mul", Deriv(a, v), b>>, <<"Mul", Deriv(b, v), a>>>>
       [] t[1] = "Div" ->
            <<"Div", <<"Sub", <<"Mul", Deriv(a, v), b>>,
                              <<"Mul", a, Deriv(b, v)>>>>,
                     <<"Pow", b, Two>>>>
       [] t[1] = "Pow" ->
            <<"Mul", <<"Mul", b, <<"Pow", a, <<"Sub", b, One>>>>>>,
                     Deriv(a, v)>>

\* The precedence ranks and symbols as the documentation states them.
Rank(t) ==
  CASE t[1] \in {"Add", "Sub"} -> 3
    [] t[1] \in {"Mul", "Div"} -> 2
    [] t[1] = "Pow" -> 1
    [] t[1] \in {"Number", "Symbol"} -> 0

Sign(t) ==
  CASE t[1] = "Add" -> "+" [] t[1] = "Sub" -> "-" [] t[1] = "Mul" -> "*"
    [] t[1] = "Div" -> "/" [] t[1] = "Pow" -> "^"

Wrapped(operand, parent) ==
  IF Rank(operand) > Rank(parent)
  THEN <<"(">> \o Str(operand).text \o <<")">>
  ELSE Str(operand).text

SymA == <<"Symbol", PyStr(<<"a">>)>>
SymB == <<"Symbol", PyStr(<<"b">>)>>
SymC == <<"Symbol", PyStr(<<"c">>)>>

\* ------------------------------------------------------------------ claims

\* C1: when postvisitor returns, fn has been applied exactly once to every
\* distinct object of the DAG, so the number of calls of fn equals the
\* number of distinct objects, also when an object is shared by two parents
\* or fills both operand slots of one parent.
C1_OncePerObject ==
  pc = "done" =>
    /\ \A n \in Nodes : calls[n] = 1
    /\ TotalCalls = Len(heap)

\* C2: fn is applied to an object only when each of its operands has a
\* result in visited, it receives those results in left-to-right operand
\* order, no lookup in visited fails, and the root has a result when the
\* stack is empty.
C2_OperandsFirst ==
  /\ pc # "KeyError"
  /\ \A n \in Nodes :
       (calls[n] > 0 \/ n \in DOMAIN visited) =>
         \A i \in 1..Len(heap[n].operands) :
           heap[n].operands[i] \in DOMAIN visited
  /\ \A n \in DOMAIN visited :
       /\ visited[n][2] = n
       /\ visited[n][3] =
            [i \in 1..Len(heap[n].operands) |-> visited[heap[n].operands[i]]]
  /\ (pc = "loop" /\ stack = <<>>) => expr \in DOMAIN visited
  /\ pc = "done" => expr \in DOMAIN visited

\* C2 witness: fn has been applied to an object with two different operands,
\* whose results differ.
C2_Witness ==
  \E n \in DOMAIN visited :
    /\ Len(heap[n].operands) = 2
    /\ heap[n].operands[1] # heap[n].operands[2]
    /\ Len(heap[heap[n].operands[2]].operands) = 2
    /\ visited[n][3][1] # visited[n][3][2]

\* C3: postvisitor with differentiate returns the tree that the rule table
\* defines recursively, unsimplified, for every expression of registered
\* classes and every var.
C3_RuleTable ==
  pc = "done" => TreeEq(result, Deriv(ToTree(heap, expr), kwargs))

\* C3 witness: a product whose left operand is itself an operator node has
\* been differentiated.
C3_Witness ==
  /\ pc = "done"
  /\ heap[expr].kind = "Mul"
  /\ heap[heap[expr].operands[1]].kind \in {"Div", "Pow"}
  /\ heap[expr].operands[1] # heap[expr].operands[2]

\* C4: the text of str determines the tree: no other expression tree has
\* the same text.
C4_TextDeterminesTree ==
  (pc = "done" /\ fn = "str") =>
    \A t \in RenderTrees : Str(t) = Returned(text) => t = self

\* C5: the text of op(a, b) is "<left> <symbol> <right>", an operand being
\* in parentheses exactly when its rank is strictly greater than op's
\* (Pow 1, Mul/Div 2, Add/Sub 3, terminals 0); (a + b) * c gives
\* "(a + b) * c" and a + b * c gives "a + b * c".
C5_Parentheses ==
  (pc = "done" /\ fn = "str") =>
    /\ self[1] \in OperatorKinds =>
         text = Wrapped(self[2], self) \o <<" ", Sign(self), " ">>
                \o Wrapped(self[3], self)
    /\ self[1] = "Symbol" => text = self[2][2]
    /\ self = <<"Mul", <<"Add", SymA, SymB>>, SymC>> =>
         text = <<"(", "a", " ", "+", " ", "b", ")", " ", "*", " ", "c">>
    /\ self = <<"Add", SymA, <<"Mul", SymB, SymC>>>> =>
         text = <<"a", " ", "+", " ", "b", " ", "*", " ", "c">>

\* C5 witness: (a + b) * c has been rendered.
C5_Witness ==
  /\ pc = "done"
  /\ self = <<"Mul", <<"Add", SymA, SymB>>, SymC>>
  /\ text[1] = "("

\* C6: differentiating a DAG that contains an object of a class with no
\* registered rule ends with NotImplementedError, and never returns a
\* derivative for the root.
C6_UnsupportedKindFails ==
  /\ [](HasUnregistered => <>(pc = "NotImplementedError"))
  /\ [](HasUnregistered => (pc # "done" /\ result = <<>>))

\* C6 witness: the traversal failed at an unregistered object below the
\* root, after other objects had been differentiated.
C6_Witness ==
  /\ pc = "NotImplementedError"
  /\ heap[expr].kind \in OperatorKinds
  /\ DOMAIN visited # {}

\* The call differentiate-visits Symbol("x") ** Number(3) with var = "x".
XCubed ==
  /\ fn = "differentiate"
  /\ ToTree(heap, expr) = <<"Pow", SymX, Three>>
  /\ kwargs = PyStr(<<"x">>)

\* C7 as stated: the derivative of x ^ 3 with respect to x is the product
\* of Number 3, x raised to the Number exponent 2, and Number 1.
C7_FoldedExponent ==
  (pc = "done" /\ XCubed) =>
    TreeEq(result, <<"Mul", <<"Mul", Three, <<"Pow", SymX, Two>>>>, One>>)

\* C7 amended: the derivative of x ^ 3 with respect to x is the product of
\* Number 3, x raised to the unevaluated exponent Sub(Number 3, Number 1),
\* and Number 1.0; its text is "3 * x ^ (3 - 1) * 1.0".
C7_UnfoldedExponent ==
  (pc = "done" /\ XCubed) =>
    /\ result = <<"Mul", <<"Mul", Three,
                            <<"Pow", SymX, <<"Sub", Three, One>>>>>>,
                  <<"Number", Num(1, TRUE)>>>>
    /\ Str(result).exc = "None"
    /\ Str(result).text = <<"3", " ", "*", " ", "x", " ", "^", " ", "(", "3", " ",
                       "-", " ", "1", ")", " ", "*", " ", "1", ".", "0">>

\* C7 witness: the derivative of x ^ 3 with respect to x has been returned.
C7_Witness == pc = "done" /\ XCubed /\ result[1] = "Mul"

\* C8: on every finite acyclic DAG, with a visitor function that returns,
\* the work loop ends: the stack becomes empty and postvisitor returns.
C8_Terminates == <>(pc = "done" /\ stack = <<>>)

\* C8 witness: postvisitor has returned on a DAG with an object shared by
\* two parents and an object in both slots of one parent.
C8_Witness == pc = "done" /\ TwoParents /\ BothSlots /\ fn = "record"

\* C9: postvisitor returns the result computed for the root, which is the
\* value of the naive recursive evaluation with the same kwargs in every
\* call; shared subexpressions do not change it.
C9_EqualsNaive ==
  pc = "done" => result = visited[expr] /\ result = Naive(expr)

\* C9 witness: postvisitor has returned on a DAG with a shared object that
\* was visited more than once.
C9_Witness ==
  /\ pc = "done"
  /\ fn = "record"
  /\ TwoParents
  /\ \E n \in Nodes : calls[n] >= 2

\* C10: each object is expanded at most once; when postvisitor returns,
\* every object was visited at least once and the root exactly once; an
\* object other than the root is visited at most as often as it fills an
\* operand slot; the calls of fn number at most 1 plus the operand slots,
\* and exactly the number of objects when no object is shared.
C10_VisitBounds ==
  /\ \A n \in Nodes : expands[n] <= 1
  /\ calls[expr] <= 1
  /\ \A n \in Nodes \ {expr} : calls[n] <= Cardinality(Slots(n))
  /\ TotalCalls <= 1 + Edges
  /\ pc = "done" =>
       /\ \A n \in Nodes : calls[n] >= 1
       /\ calls[expr] = 1
       /\ ~Shared => TotalCalls = Len(heap)

\* C10 witness: postvisitor has returned after visiting a shared object as
\* often as it fills an operand slot, and another shared object less often.
C10_Witness ==
  /\ pc = "done"
  /\ \E n \in Nodes : calls[n] = Cardinality(Slots(n)) /\ calls[n] >= 2
  /\ \E n \in Nodes : calls[n] < Cardinality(Slots(n))

====
